---- MODULE Spec2Model ----
(***************************************************************************)
(* Client bootstrap of the chat / Q&A frontend                             *)
(* (src/app/frontend/src/index.tsx): the route table handed to             *)
(* createHashRouter, the data router's navigation state machine that the   *)
(* table configures (eager elements, lazy routes, no errorElement, no      *)
(* fallbackElement), and the one-shot bootstrap that mounts the tree.      *)
(*                                                                         *)
(* The router is the data router of react-router-dom 6.9 and later, the   *)
(* first to accept `lazy` on a route: a navigation to a route whose lazy   *)
(* is set stays pending, with the committed page left on screen, until     *)
(* the promise settles; an uninitialized router renders RouterProvider's   *)
(* fallbackElement; a route error is shown by the nearest route with an    *)
(* error element, the root route failing one.                              *)
(*                                                                         *)
(* A path is the sequence of its non-empty lower-case segments: "/" is     *)
(* << >>, "/qa" is <<"qa">>, "/qa/x" is <<"qa", "x">>.                     *)
(***************************************************************************)
EXTENDS Naturals, Integers, Sequences, FiniteSets

VARIABLES
    pc,           \* position of the module's top-level code
    rootExists,   \* whether document.getElementById("root") finds an element
    iconsInit,    \* number of initializeIcons() calls
    renderCalls,  \* number of root.render(...) calls
    location,     \* router state.location (before the router exists: the URL hash)
    initialized,  \* router state.initialized
    navigation,   \* router state.navigation: [state, location]
    errors,       \* router state.errors: "null" or the id of the boundary route
    routeLazy,    \* per lazy route: is route.lazy still set (module not cached)
    stale,        \* per lazy route: unsettled lazy() promises of aborted navigations
    lazyCalls,    \* per lazy route: number of lazy() invocations so far
    lastEvent     \* the last step taken

vars == <<pc, rootExists, iconsInit, renderCalls, location, initialized,
          navigation, errors, routeLazy, stale, lazyCalls, lastEvent>>

\* Bound of the model: lazy() invocations allowed per lazy route.
MaxCalls == 2

\* The paths navigated to: the three defined ones, and undefined ones of one
\* and two segments, among them some that begin or end with a defined segment.
Paths ==
    {<< >>, <<"qa">>, <<"profile">>, <<"x">>,
     <<"qa", "x">>, <<"x", "profile">>, <<"profile", "qa">>}

Undefined == <<"undefined">>

----------------------------------------------------------------------------
\* The route table (index.tsx lines 14-38).

IndexRoute ==
    [id |-> "0-0", index |-> TRUE, path |-> << >>, element |-> "Chat", lazy |-> "none"]

QaRoute ==
    [id |-> "0-1", index |-> FALSE, path |-> <<"qa">>, element |-> "none", lazy |-> "OneShot"]

\* Variant: the profile page loaded lazily, as in the commented-out line 30.
ProfileRoute_lazy ==
    [id |-> "0-2", index |-> FALSE, path |-> <<"profile">>, element |-> "none", lazy |-> "ProfileSetup"]

ProfileRoute ==
    [id |-> "0-2", index |-> FALSE, path |-> <<"profile">>, element |-> "ProfileSetup", lazy |-> "none"]

NoPageRoute ==
    [id |-> "0-3", index |-> FALSE, path |-> <<"*">>, element |-> "none", lazy |-> "NoPage"]

children == <<IndexRoute, QaRoute, ProfileRoute, NoPageRoute>>

RootRoute ==
    [id |-> "0", index |-> FALSE, path |-> << >>, element |-> "Layout", lazy |-> "none"]

LazyIds == {children[i].id : i \in {j \in 1..Len(children) : children[j].lazy # "none"}}

NoMatch == << >>

----------------------------------------------------------------------------
\* Route matching as the router performs it on the table above: the table
\* is flattened into branches, the branches are ranked, and the first
\* branch whose every segment pattern matches is the match.

isSplat(seg) == seg = "*"

\* The score of a branch path. "/" splits into two empty segments, "/a/b"
\* into one empty segment followed by its segments.
computeScore(pattern, index) ==
    LET nSegments == IF pattern = << >> THEN 2 ELSE Len(pattern) + 1
        nEmpty    == IF pattern = << >> THEN 2 ELSE 1
        hasSplat  == \E i \in 1..Len(pattern) : isSplat(pattern[i])
        nStatic   == Cardinality({i \in 1..Len(pattern) : ~isSplat(pattern[i])})
    IN  nSegments + (IF hasSplat THEN -2 ELSE 0) + (IF index THEN 2 ELSE 0)
        + nEmpty + 10 * nStatic

\* One branch per child (root, then the child) and one for the root alone.
flattenRoutes ==
    {[routes |-> <<RootRoute, children[i]>>, order |-> i,
      score |-> computeScore(RootRoute.path \o children[i].path, children[i].index)]
        : i \in 1..Len(children)}
    \cup {[routes |-> <<RootRoute>>, order |-> Len(children) + 1,
           score |-> computeScore(RootRoute.path, RootRoute.index)]}

\* Variant: a pattern matches any path it is a prefix of (end ignored).
matchPath_prefix(pattern, end, p) ==
    LET splat  == pattern # << >> /\ isSplat(pattern[Len(pattern)])
        static == IF splat THEN SubSeq(pattern, 1, Len(pattern) - 1) ELSE pattern
    IN  /\ Len(p) >= Len(static)
        /\ SubSeq(p, 1, Len(static)) = static

\* Does the pattern match the path: all of it (end) or a prefix of it.
matchPath(pattern, end, p) ==
    LET splat  == pattern # << >> /\ isSplat(pattern[Len(pattern)])
        static == IF splat THEN SubSeq(pattern, 1, Len(pattern) - 1) ELSE pattern
    IN  /\ Len(p) >= Len(static)
        /\ SubSeq(p, 1, Len(static)) = static
        /\ (end /\ ~splat) => Len(p) = Len(static)

\* Every route of the branch matches in turn; only the last must match to the end.
matchRouteBranch(branch, p) ==
    LET rs == branch.routes
    IN  /\ matchPath(rs[1].path, Len(rs) = 1, p)
        /\ Len(rs) > 1 => matchPath(rs[2].path, TRUE, SubSeq(p, Len(rs[1].path) + 1, Len(p)))

\* Variant: the ranking is upside down, lowest score first.
rankedBefore_ascending(a, b) ==
    \/ a.score < b.score
    \/ a.score = b.score /\ a.order <= b.order

\* Higher score first; among equal scores the earlier sibling first.
rankedBefore(a, b) ==
    \/ a.score > b.score
    \/ a.score = b.score /\ a.order <= b.order

matchRoutes(p) ==
    LET matching == {b \in flattenRoutes : matchRouteBranch(b, p)}
    IN  IF matching = {} THEN NoMatch
        ELSE (CHOOSE b \in matching : \A c \in matching : rankedBefore(b, c)).routes

\* The matches of every path of the model, computed once.
Matches == [p \in Paths |-> matchRoutes(p)]

\* The deepest matched route.
Leaf(p) ==
    LET m == Matches[p] IN IF m = NoMatch THEN RootRoute ELSE m[Len(m)]

IsLazy(route) == route.id \in LazyIds

----------------------------------------------------------------------------
\* The rendered tree, outermost component first; << >> is an empty page.

Idle == [state |-> "idle", location |-> Undefined]

Loading(p) == [state |-> "loading", location |-> p]

\* What a matched route renders by itself: its element, or the component of
\* its lazy module once that module has been cached on the route.
Component(route, lz) ==
    IF route.element # "none" THEN route.element
    ELSE IF IsLazy(route) /\ ~lz[route.id] THEN route.lazy
    ELSE "none"

\* Variant: the failing route itself holds the error.
findNearestBoundary_leaf(matches) == matches[Len(matches)].id

\* No route of the table has an errorElement: the nearest boundary of any
\* route is the first match.
findNearestBoundary(matches) == matches[1].id

\* The matches are rendered up to the route holding the error, which shows
\* the default error element in place of its own element; a route with
\* nothing to show renders its outlet.
RECURSIVE renderMatches(_, _, _)
renderMatches(matches, errs, lz) ==
    IF matches = << >> THEN << >>
    ELSE LET m == Head(matches)
         IN  IF errs = m.id THEN <<"DefaultErrorElement">>
             ELSE IF Component(m, lz) # "none"
                  THEN <<Component(m, lz)>> \o renderMatches(Tail(matches), errs, lz)
                  ELSE renderMatches(Tail(matches), errs, lz)

\* RouterProvider is given no fallbackElement (line 42).
fallbackElement == << >>

RouterProvider(loc, init, errs, lz) ==
    IF init THEN renderMatches(Matches[loc], errs, lz) ELSE fallbackElement

\* The content of the mount point: nothing until root.render has run.
TreeOf(p, loc, init, errs, lz) ==
    IF p = "mounted" THEN RouterProvider(loc, init, errs, lz) ELSE << >>

Rendered == TreeOf(pc, location, initialized, errors, routeLazy)

----------------------------------------------------------------------------
\* Bootstrap: the module's top-level statements, in order (lines 12-44).

Init ==
    /\ pc = "notStarted"
    /\ rootExists \in BOOLEAN
    /\ iconsInit = 0
    /\ renderCalls = 0
    /\ location \in Paths
    /\ initialized = FALSE
    /\ navigation = Idle
    /\ errors = "null"
    /\ routeLazy = [r \in LazyIds |-> TRUE]
    /\ stale = [r \in LazyIds |-> 0]
    /\ lazyCalls = [r \in LazyIds |-> 0]
    /\ lastEvent = "load"

\* Variant: the icon initialization is left out.
initializeIcons_skipped ==
    /\ pc = "notStarted"
    /\ pc' = "iconsDone"
    /\ lastEvent' = "initializeIcons"
    /\ UNCHANGED <<rootExists, iconsInit, renderCalls, location, initialized,
                   navigation, errors, routeLazy, stale, lazyCalls>>

\* Line 12.
initializeIcons ==
    /\ pc = "notStarted"
    /\ pc' = "iconsDone"
    /\ iconsInit' = iconsInit + 1
    /\ lastEvent' = "initializeIcons"
    /\ UNCHANGED <<rootExists, renderCalls, location, initialized, navigation,
                   errors, routeLazy, stale, lazyCalls>>

\* Variant: the router counts as initialized even when a matched route is lazy.
createHashRouter_alwaysReady ==
    /\ pc = "iconsDone"
    /\ pc' = "routerCreated"
    /\ initialized' = TRUE
    /\ LET leaf == Leaf(location)
       IN  IF IsLazy(leaf)
           THEN /\ navigation' = Loading(location)
                /\ lazyCalls' = [lazyCalls EXCEPT ![leaf.id] = @ + 1]
           ELSE /\ navigation' = Idle
                /\ lazyCalls' = lazyCalls
    /\ lastEvent' = "createHashRouter"
    /\ UNCHANGED <<rootExists, iconsInit, renderCalls, location, errors,
                   routeLazy, stale>>

\* Lines 14-38. The router is created on the current hash and initialized at
\* once: it is ready if no matched route is lazy, and otherwise starts the
\* initial navigation, which invokes the matched route's lazy().
createHashRouter ==
    /\ pc = "iconsDone"
    /\ pc' = "routerCreated"
    /\ LET leaf == Leaf(location)
       IN  IF IsLazy(leaf)
           THEN /\ initialized' = FALSE
                /\ navigation' = Loading(location)
                /\ lazyCalls' = [lazyCalls EXCEPT ![leaf.id] = @ + 1]
           ELSE /\ initialized' = TRUE
                /\ navigation' = Idle
                /\ lazyCalls' = lazyCalls
    /\ lastEvent' = "createHashRouter"
    /\ UNCHANGED <<rootExists, iconsInit, renderCalls, location, errors,
                   routeLazy, stale>>

\* Variant: the tree is rendered without regard to the container.
render_unchecked ==
    /\ pc = "routerCreated"
    /\ pc' = "mounted"
    /\ renderCalls' = renderCalls + 1
    /\ lastEvent' = "render"
    /\ UNCHANGED <<rootExists, iconsInit, location, initialized, navigation,
                   errors, routeLazy, stale, lazyCalls>>

\* Lines 40-44. createRoot throws on a missing container, which ends the
\* module's evaluation before render is called.
render ==
    /\ pc = "routerCreated"
    /\ IF rootExists
       THEN /\ pc' = "mounted"
            /\ renderCalls' = renderCalls + 1
       ELSE /\ pc' = "failed"
            /\ renderCalls' = renderCalls
    /\ lastEvent' = "render"
    /\ UNCHANGED <<rootExists, iconsInit, location, initialized, navigation,
                   errors, routeLazy, stale, lazyCalls>>

\* Events are delivered only after the top-level code has run to its end.
Running == pc \in {"mounted", "failed"}

----------------------------------------------------------------------------
\* The router at work.

\* A navigation is committed: its location becomes the current one.
completeNavigation(p, errs) ==
    /\ location' = p
    /\ initialized' = TRUE
    /\ navigation' = Idle
    /\ errors' = errs

\* A navigation still loading is aborted by the next one; its lazy()
\* promise stays unsettled.
AbortPending ==
    IF navigation.state = "loading"
    THEN [stale EXCEPT ![Leaf(navigation.location).id] = @ + 1]
    ELSE stale

\* The hash changes to p (a link, the address bar, back/forward). A matched
\* route whose lazy is still set has it invoked and the navigation waits for
\* the promise; any other navigation is committed at once. The table's
\* wildcard child matches every path, so the no-match error never arises.
startNavigation(p) ==
    /\ Running
    /\ LET matches == Matches[p]
           leaf    == Leaf(p)
       IN  IF matches # NoMatch /\ IsLazy(leaf) /\ routeLazy[leaf.id]
           THEN /\ lazyCalls[leaf.id] < MaxCalls
                /\ lazyCalls' = [lazyCalls EXCEPT ![leaf.id] = @ + 1]
                /\ navigation' = Loading(p)
                /\ lastEvent' = "navigateLazy"
                /\ UNCHANGED <<location, initialized, errors>>
           ELSE /\ completeNavigation(p, IF matches = NoMatch THEN RootRoute.id ELSE "null")
                /\ lastEvent' = "navigateSync"
                /\ UNCHANGED lazyCalls
    /\ stale' = AbortPending
    /\ UNCHANGED <<pc, rootExists, iconsInit, renderCalls, routeLazy>>

\* Variant: the resolved module is not cached, the route keeps its lazy.
lazyResolved_notCached ==
    /\ Running
    /\ navigation.state = "loading"
    /\ completeNavigation(navigation.location, "null")
    /\ lastEvent' = "lazyResolved"
    /\ UNCHANGED <<pc, rootExists, iconsInit, renderCalls, routeLazy, stale, lazyCalls>>

\* The lazy() promise of the navigation in progress resolves: the module's
\* component is stored on the route, lazy is cleared, and the navigation is
\* committed.
lazyResolved ==
    /\ Running
    /\ navigation.state = "loading"
    /\ routeLazy' = [routeLazy EXCEPT ![Leaf(navigation.location).id] = FALSE]
    /\ completeNavigation(navigation.location, "null")
    /\ lastEvent' = "lazyResolved"
    /\ UNCHANGED <<pc, rootExists, iconsInit, renderCalls, stale, lazyCalls>>

\* The lazy() promise of the navigation in progress rejects (the module
\* could not be fetched): the navigation is committed with the error held
\* by the nearest boundary. The route keeps its lazy.
lazyRejected ==
    /\ Running
    /\ navigation.state = "loading"
    /\ routeLazy[Leaf(navigation.location).id]
    /\ completeNavigation(navigation.location,
                          findNearestBoundary(Matches[navigation.location]))
    /\ lastEvent' = "lazyRejected"
    /\ UNCHANGED <<pc, rootExists, iconsInit, renderCalls, routeLazy, stale, lazyCalls>>

\* Variant: a late resolution is not discarded, it commits its old navigation.
lateResolved_commits(r) ==
    /\ Running
    /\ stale[r] > 0
    /\ stale' = [stale EXCEPT ![r] = @ - 1]
    /\ routeLazy' = [routeLazy EXCEPT ![r] = FALSE]
    /\ \E p \in Paths : Leaf(p).id = r /\ completeNavigation(p, "null")
    /\ lastEvent' = "lateResolved"
    /\ UNCHANGED <<pc, rootExists, iconsInit, renderCalls, lazyCalls>>

\* The promise of an aborted navigation resolves: the route is still
\* updated (the first lazy() to finish wins), the navigation is not resumed.
lateResolved(r) ==
    /\ Running
    /\ stale[r] > 0
    /\ stale' = [stale EXCEPT ![r] = @ - 1]
    /\ routeLazy' = [routeLazy EXCEPT ![r] = FALSE]
    /\ lastEvent' = "lateResolved"
    /\ UNCHANGED <<pc, rootExists, iconsInit, renderCalls, location, initialized,
                   navigation, errors, lazyCalls>>

\* The promise of an aborted navigation rejects: the error is dropped.
lateRejected(r) ==
    /\ Running
    /\ stale[r] > 0
    /\ routeLazy[r]
    /\ stale' = [stale EXCEPT ![r] = @ - 1]
    /\ lastEvent' = "lateRejected"
    /\ UNCHANGED <<pc, rootExists, iconsInit, renderCalls, location, initialized,
                   navigation, errors, routeLazy, lazyCalls>>

Next ==
    \/ initializeIcons
    \/ createHashRouter
    \/ render
    \/ \E p \in Paths : startNavigation(p)
    \/ lazyResolved
    \/ lazyRejected
    \/ \E r \in LazyIds : lateResolved(r)
    \/ \E r \in LazyIds : lateRejected(r)

Spec == Init /\ [][Next]_vars

TypeOK ==
    /\ pc \in {"notStarted", "iconsDone", "routerCreated", "mounted", "failed"}
    /\ location \in Paths
    /\ navigation.state \in {"idle", "loading"}
    /\ errors \in {"null", RootRoute.id}

----------------------------------------------------------------------------
\* Properties.

Mounted == pc = "mounted"

HasLayout == \E i \in 1..Len(Rendered) : Rendered[i] = "Layout"

\* The paths the table defines by name: "/", "/qa", "/profile".
IsDefinedPath(p) == p \in {<< >>, <<"qa">>, <<"profile">>}

\* C1: every path other than "/", "/qa" and "/profile" is matched by the
\* wildcard child, whatever was navigated before, and once a navigation to
\* it is committed without a load error the tree is the layout shell around
\* the not-found page.
C1_UnmatchedRendersNoPage ==
    \A p \in Paths :
        ~IsDefinedPath(p) =>
            /\ Leaf(p) = NoPageRoute
            /\ (Mounted /\ initialized /\ location = p /\ errors = "null")
                   => Rendered = <<"Layout", "NoPage">>

C1_Witness ==
    /\ Mounted /\ initialized /\ errors = "null"
    /\ location = <<"qa", "x">>
    /\ lastEvent = "lazyResolved"
    /\ Rendered = <<"Layout", "NoPage">>

\* C4: whenever "/" is the committed location the tree is exactly the layout
\* shell around the chat page.
C4_RootRendersChat ==
    (Mounted /\ initialized /\ location = << >>) => Rendered = <<"Layout", "Chat">>

C4_Witness ==
    /\ Mounted /\ location = << >>
    /\ lastEvent = "navigateSync"
    /\ Rendered = <<"Layout", "Chat">>

\* C2: a navigation to "/qa" made while the Q&A module is not cached invokes
\* its lazy() exactly once and waits; when that resolution completes the page
\* is committed and rendered in the layout shell; from then on the module
\* stays cached, lazy() is never invoked again, and a navigation to "/qa" is
\* committed in the same step.
C2_Step ==
    /\ (routeLazy[QaRoute.id] /\ startNavigation(<<"qa">>))
           => /\ lazyCalls'[QaRoute.id] = lazyCalls[QaRoute.id] + 1
              /\ navigation' = Loading(<<"qa">>)
    /\ (navigation = Loading(<<"qa">>) /\ lazyResolved)
           => /\ location' = <<"qa">>
              /\ ~routeLazy'[QaRoute.id]
              /\ Mounted => Rendered' = <<"Layout", "OneShot">>
    /\ ~routeLazy[QaRoute.id]
           => /\ ~routeLazy'[QaRoute.id]
              /\ lazyCalls'[QaRoute.id] = lazyCalls[QaRoute.id]
    /\ (~routeLazy[QaRoute.id] /\ startNavigation(<<"qa">>))
           => /\ location' = <<"qa">>
              /\ navigation' = Idle
              /\ Mounted => Rendered' = <<"Layout", "OneShot">>

C2_QaResolvedOnceThenCached == [][C2_Step]_vars

C2_Witness ==
    /\ Mounted
    /\ lastEvent = "navigateSync"
    /\ location = <<"qa">>
    /\ lazyCalls[QaRoute.id] = 1
    /\ Rendered = <<"Layout", "OneShot">>

\* C3 as stated: the layout shell is in the tree at every moment after the
\* mount, the first navigation and pending lazy resolutions included.
C3_LayoutAlwaysPresent == Mounted => HasLayout

\* C3, amended: after the mount the layout shell is in the tree exactly when
\* a first navigation has been committed and no load error is shown; that
\* is so at every committed eager route and while a later lazy route is
\* resolving; it is absent while the first navigation waits for a lazy
\* module and while a load error is shown.
C3_LayoutWhenCommitted ==
    Mounted =>
        /\ (initialized /\ errors = "null") => HasLayout
        /\ (initialized /\ ~IsLazy(Leaf(location))) => HasLayout
        /\ (~initialized \/ errors # "null") => ~HasLayout

C3_Witness ==
    /\ Mounted /\ initialized /\ errors = "null"
    /\ navigation = Loading(<<"x">>)
    /\ location = <<"profile">>
    /\ HasLayout

\* C5: a navigation to "/profile" invokes no lazy(), is committed in the
\* same step and renders the profile-setup page in the layout shell, and no
\* navigation to "/profile" is ever pending, whatever the lazy routes are
\* doing; a session that starts on "/profile" is initialized at once.
C5_State ==
    /\ navigation.state = "loading" => navigation.location # <<"profile">>
    /\ (Mounted /\ location = <<"profile">> /\ navigation.state = "idle")
           => Rendered = <<"Layout", "ProfileSetup">>

C5_Step ==
    startNavigation(<<"profile">>)
        => /\ lazyCalls' = lazyCalls
           /\ navigation' = Idle
           /\ location' = <<"profile">>
           /\ Mounted => Rendered' = <<"Layout", "ProfileSetup">>

C5_ProfileNeverDeferred == []C5_State /\ [][C5_Step]_vars

C5_Witness ==
    /\ Mounted
    /\ lastEvent = "navigateSync"
    /\ location = <<"profile">>
    /\ stale[QaRoute.id] > 0
    /\ lazyCalls = [r \in LazyIds |-> IF r = QaRoute.id THEN 1 ELSE 0]
    /\ Rendered = <<"Layout", "ProfileSetup">>

\* C6: with no element for "root" the bootstrap ends in failure, render is
\* never called and the mount point stays empty whatever the router does
\* afterwards; the failed bootstrap is never resumed.
C6_State ==
    ~rootExists => (pc # "mounted" /\ renderCalls = 0 /\ Rendered = << >>)

C6_MissingRootRendersNothing == []C6_State /\ [][pc = "failed" => pc' = "failed"]_vars

C6_Witness ==
    /\ pc = "failed"
    /\ lastEvent = "lazyResolved"
    /\ initialized
    /\ Rendered = << >>

\* C7: the icons are initialized exactly once and before the router is
\* created and the tree rendered; render is called at most once, and exactly
\* once when the mount point exists; the bootstrap only moves forward, never
\* back to "not started", and nothing of it runs again once it has ended.
C7_State ==
    /\ iconsInit <= 1
    /\ renderCalls <= 1
    /\ pc # "notStarted" => iconsInit = 1
    /\ renderCalls = 1 <=> pc = "mounted"
    /\ (Running /\ rootExists) => renderCalls = 1

C7_Step ==
    /\ pc # "notStarted" => pc' # "notStarted"
    /\ Running => (pc' = pc /\ iconsInit' = iconsInit /\ renderCalls' = renderCalls)

C7_BootstrapOnceInOrder == []C7_State /\ [][C7_Step]_vars

C7_Witness ==
    /\ Mounted
    /\ iconsInit = 1
    /\ renderCalls = 1
    /\ lastEvent = "navigateLazy"

\* C8 as stated: when a lazy resolution has failed, the layout shell is
\* still rendered.
C8_FailureLeavesLayout == (Mounted /\ errors # "null") => HasLayout

\* C8, amended: a failed lazy resolution of the navigation in progress is
\* held by the root route, so the default error element replaces the whole
\* tree, layout shell included. Other routes are not affected: the failure
\* changes no route's cached module and no other pending resolution, the
\* next navigation committed without a failure of its own clears the error
\* and renders in the layout shell, and the failure of a superseded
\* resolution shows no error.
C8_State ==
    errors # "null" =>
        /\ errors = RootRoute.id
        /\ IsLazy(Leaf(location))
        /\ Mounted => Rendered = <<"DefaultErrorElement">>

C8_Step ==
    /\ lazyRejected => (routeLazy' = routeLazy /\ stale' = stale /\ errors' # "null")
    /\ (errors # "null" /\ lastEvent' \in {"navigateSync", "lazyResolved"})
           => (errors' = "null" /\ (Mounted => HasLayout'))
    /\ (\E r \in LazyIds : lateRejected(r)) => errors' = errors

C8_FailureReplacesTree == []C8_State /\ [][C8_Step]_vars

C8_Witness ==
    /\ Mounted
    /\ lastEvent = "lazyRejected"
    /\ errors = RootRoute.id
    /\ location = <<"qa">>
    /\ Rendered = <<"DefaultErrorElement">>

\* C9: when the resolution of a navigation that was left before it
\* completed finally settles, the rendered tree, the committed location and
\* the navigation in progress stay as they are.
C9_Step ==
    (\E r \in LazyIds : lateResolved(r) \/ lateRejected(r))
        => /\ Rendered' = Rendered
           /\ location' = location
           /\ navigation' = navigation
           /\ errors' = errors

C9_LateResolutionUnused == [][C9_Step]_vars

C9_Witness ==
    /\ Mounted
    /\ lastEvent = "lateResolved"
    /\ ~routeLazy[QaRoute.id]
    /\ location = <<"profile">>
    /\ Rendered = <<"Layout", "ProfileSetup">>

\* C10 as stated: while a lazy resolution is pending the layout shell stays
\* rendered.
C10_LayoutWhilePending == (Mounted /\ navigation.state = "loading") => HasLayout

\* C10, amended: only a navigation to a lazy route waits. While it waits
\* the tree on screen does not change: after a first commit that is the
\* layout shell with the previous page (or the error screen), and during the
\* initial load of a lazy route it is nothing at all, the layout shell
\* included. The target is rendered, in the layout shell, when its module
\* resolves.
C10_State ==
    /\ navigation.state = "loading" => IsLazy(Leaf(navigation.location))
    /\ (Mounted /\ navigation.state = "loading" /\ initialized /\ errors = "null")
           => HasLayout
    /\ (Mounted /\ IsLazy(Leaf(location)) /\ routeLazy[Leaf(location).id] /\ errors = "null")
           => (Rendered = << >> /\ navigation.state = "loading")

C10_Step ==
    /\ (Mounted /\ navigation'.state = "loading") => Rendered' = Rendered
    /\ (Mounted /\ lazyResolved)
           => Rendered' = <<"Layout", Leaf(navigation.location).lazy>>

C10_PendingKeepsTree == []C10_State /\ [][C10_Step]_vars

C10_Witness ==
    /\ Mounted
    /\ ~initialized
    /\ navigation = Loading(<<"qa">>)
    /\ lastEvent = "render"
    /\ Rendered = << >>

====
